---- MODULE Spec2Model ----
(***************************************************************************)
(* A model of src/modules/cv_transformer.py (class CVTransformer).         *)
(*                                                                         *)
(* Strings are sequences of symbols.  A symbol is either one of the        *)
(* delimiter characters the code looks at (" ", "-", "_", "+", ".", "/")   *)
(* or a run of other characters written as one TLA+ string ("June",        *)
(* "2025", "Cost").  The symbol sets used below are uniquely decodable,    *)
(* so two symbol sequences are equal exactly when the Python strings are.  *)
(***************************************************************************)
EXTENDS Integers, Sequences, FiniteSets, TLC

VARIABLES
    filename, date,            \* extract_month_year_from_filename: argument, outcome
    rawname, colname, once,    \* column-name cleaning: name given, current name, name after one pass
    applied,                   \* column-name cleaning: passes made
    csv, long,                 \* transform_csv: the file read, outcome
    folder,                    \* the data folder on disk: [exists, entries]
    csv_files, idx,            \* transform_all_files: list of paths, loop position
    transformed_dfs, log,      \* transform_all_files: collected tables, printed lines
    pc, outcome, returned,     \* save_transformed_data: position, outcome of transform_all_files, value returned
    outfile, writes            \* the output path on disk, number of writes to it

vars == <<filename, date, rawname, colname, once, applied, csv, long, folder, csv_files, idx,
          transformed_dfs, log, pc, outcome, returned, outfile, writes>>

(***************************************************************************)
(* Bounds of the model.                                                    *)
(***************************************************************************)
MaxPrefix == 3      \* " - "-separated segments put before the generated last segment
MaxTokens == 3      \* space-separated tokens of the generated last segment
MaxLen == 4         \* characters of a column name in the cleaning specification
MaxApply == 2       \* passes of the cleaning step
MaxRows == 3        \* rows of a wide table
MaxDays == 2        \* day columns of a wide table
MaxFiles == 3       \* entries of the data folder

(***************************************************************************)
(* str.split(sep) with an explicit separator: non-overlapping matches      *)
(* found left to right, empty pieces kept.                                 *)
(***************************************************************************)
MatchesAt(s, sep, i) ==
    /\ i + Len(sep) - 1 <= Len(s)
    /\ \A k \in 1..Len(sep) : s[i + k - 1] = sep[k]

RECURSIVE SplitFrom(_, _, _, _, _)
SplitFrom(s, sep, i, cur, acc) ==
    IF i > Len(s) THEN Append(acc, cur)
    ELSE IF MatchesAt(s, sep, i)
         THEN SplitFrom(s, sep, i + Len(sep), <<>>, Append(acc, cur))
         ELSE SplitFrom(s, sep, i + 1, Append(cur, s[i]), acc)

Split(s, sep) == SplitFrom(s, sep, 1, <<>>, <<>>)

RECURSIVE Join(_, _)
Join(pieces, sep) ==
    IF Len(pieces) = 0 THEN <<>>
    ELSE IF Len(pieces) = 1 THEN pieces[1]
    ELSE pieces[1] \o sep \o Join(Tail(pieces), sep)

(***************************************************************************)
(* extract_month_year_from_filename                                        *)
(***************************************************************************)
month_map ==
    ("Jan" :> 1) @@ ("Feb" :> 2) @@ ("Mar" :> 3) @@ ("Apr" :> 4) @@ ("May" :> 5) @@
    ("Jun" :> 6) @@ ("Jul" :> 7) @@ ("Aug" :> 8) @@ ("Sep" :> 9) @@ ("Oct" :> 10) @@
    ("Nov" :> 11) @@ ("Dec" :> 12) @@
    ("January" :> 1) @@ ("February" :> 2) @@ ("March" :> 3) @@ ("April" :> 4) @@
    ("June" :> 6) @@ ("July" :> 7) @@ ("August" :> 8) @@ ("September" :> 9) @@
    ("October" :> 10) @@ ("November" :> 11) @@ ("December" :> 12)

\* month_map.get(month_part, 1)
MonthGet(tok) ==
    IF Len(tok) = 1 /\ tok[1] \in DOMAIN month_map THEN month_map[tok[1]] ELSE 1

\* The decimal numerals that occur in the modelled strings.
Numeral == ("2024" :> 2024) @@ ("2025" :> 2025)

\* int(year_part): an optional sign and a numeral; anything else raises ValueError.
IntParses(tok) ==
    \/ Len(tok) = 1 /\ tok[1] \in DOMAIN Numeral
    \/ Len(tok) = 2 /\ tok[1] = "-" /\ tok[2] \in DOMAIN Numeral

IntOf(tok) == IF Len(tok) = 1 THEN Numeral[tok[1]] ELSE 0 - Numeral[tok[2]]

DateOk(m, y) == [ok |-> TRUE, month |-> m, year |-> y, err |-> "none"]
DateErr(e) == [ok |-> FALSE, month |-> 0, year |-> 0, err |-> e]
NoDate == DateErr("idle")

\* A faulty variant: the guard reads len(parts) >= 3 and the third part is parsed.
ExtractShortGuard(fname) ==
    LET parts == Split(fname, <<" ", "-", " ">>) IN
    IF Len(parts) >= 3
    THEN LET toks == Split(parts[3], <<" ">>) IN
         IF Len(toks) < 2 THEN DateErr("IndexError")
         ELSE IF ~IntParses(toks[1]) THEN DateErr("ValueError")
         ELSE DateOk(MonthGet(toks[2]), IntOf(toks[1]))
    ELSE DateOk(1, 2025)

extract_month_year_from_filename(fname) ==
    LET parts == Split(fname, <<" ", "-", " ">>) IN
    IF Len(parts) >= 4
    THEN LET toks == Split(parts[4], <<" ">>)      \* parts[3].split(' ')
             year_part == toks[1]
             month_part == toks[2]
         IN  IF Len(toks) < 2 THEN DateErr("IndexError")        \* [1] of a one-element list
             ELSE IF ~IntParses(year_part) THEN DateErr("ValueError")   \* int(year_part)
             ELSE DateOk(MonthGet(month_part), IntOf(year_part))
    ELSE DateOk(1, 2025)

(***************************************************************************)
(* Filenames the date specification draws from: up to MaxPrefix leading    *)
(* segments and a last segment of up to MaxTokens tokens, joined as the    *)
(* naming convention joins them.                                           *)
(***************************************************************************)
Prefix(k) ==
    IF k = 1 THEN <<"Ghana">>
    ELSE IF k = 2 THEN <<"Marketing_Growth", " ", "360", " ", "Report">>
    ELSE IF k = 3 THEN <<"2025">>
    ELSE <<"Extra">>

Words == { <<>>, <<"2025">>, <<"2024">>, <<"June">>, <<"Jun">>, <<"Overview.csv">>,
           <<"-">>, <<"-", "2025">> }

TokenSeqs == UNION { [1..n -> Words] : n \in 1..MaxTokens }

MakeName(n, toks) ==
    Join([k \in 1..n |-> Prefix(k)] \o << Join(toks, <<" ">>) >>, <<" ", "-", " ">>)

FileNames == { MakeName(n, toks) : n \in 0..MaxPrefix, toks \in TokenSeqs }

(***************************************************************************)
(* Column-name cleaning of transform_csv (the three .str calls).           *)
(***************************************************************************)
\* The symbols with an upper-case character, and what str.lower makes of them.
LowerOf ==
    ("A" :> "a") @@ ("Cost" :> "cost") @@ ("Growth" :> "growth") @@
    ("Digital" :> "digital") @@ ("Marketing" :> "marketing") @@
    ("Installs" :> "installs") @@ ("Date" :> "date") @@ ("Fsfirst" :> "fsfirst") @@
    ("Disb" :> "disb") @@ ("Report" :> "report") @@ ("Day" :> "day")

HasUpper(c) == c \in DOMAIN LowerOf

str_lower(s) == [i \in 1..Len(s) |-> IF HasUpper(s[i]) THEN LowerOf[s[i]] ELSE s[i]]

str_replace_space(s) == [i \in 1..Len(s) |-> IF s[i] = " " THEN "_" ELSE s[i]]

Stripped == {"+", "-", ".", "/"}

IsKept(c) == c \notin Stripped

\* A faulty variant: re.sub with count=1, only the first match is removed.
RECURSIVE StripFirstOnly(_)
StripFirstOnly(s) ==
    IF Len(s) = 0 THEN s
    ELSE IF Head(s) \in Stripped THEN Tail(s)
    ELSE <<Head(s)>> \o StripFirstOnly(Tail(s))

\* str.replace(r'[+\-./]', '', regex=True)
str_strip(s) == SelectSeq(s, IsKept)

CleanName(s) == str_strip(str_replace_space(str_lower(s)))

NameChars == {"A", "a", " ", "_", "+", "-", ".", "/"}

RawNames == UNION { [1..n -> NameChars] : n \in 0..MaxLen }

(***************************************************************************)
(* transform_csv.  A file is [path, readable, header, rows]: header and    *)
(* rows are what pd.read_csv makes of it (the first line as the column     *)
(* labels, a default 0..n-1 row index).  A data frame is                   *)
(* [index, columns, rows] with rows[r][c] the cell of row r, column c.     *)
(***************************************************************************)
NaN == <<"nan">>

report_day == <<"report", "_", "day">>

Placeholders == <<
    <<"new", "_", "install", "_", "first", "_", "dis">>,
    <<"signupfirst", "_", "dis">>,
    <<"cac", "_", "incl", "_", "branding">>,
    <<"first", "_", "disbursement", "_", "all">>,
    <<"fsfirst", "_", "disb">>,
    <<"first", "_", "disbursement", "_", "fidobiz">> >>

NumPlaceholders == Len(Placeholders)

Frame(ix, cols, rws) == [ok |-> TRUE, err |-> "none", index |-> ix, columns |-> cols, rows |-> rws]
Failed(e) == [ok |-> FALSE, err |-> e, index |-> <<>>, columns |-> <<>>, rows |-> <<>>]
NoFrame == Failed("idle")

\* os.path.join(data_folder, file) and os.path.basename(csv_path)
PathJoin(dir, name) == <<dir, name>>
basename(path) == path[2]

\* df.sort_index(): rows in ascending order of the row index, which read_csv set to 0..n-1.
sort_index(df) ==
    LET n == Len(df.rows)
        index == [i \in 1..n |-> i - 1]
    IN  [df EXCEPT !.rows = [i \in 1..n |-> df.rows[CHOOSE j \in 1..n : index[j] = i - 1]]]

\* .transpose(): the column labels become the row index, the row index the columns.
transpose(df) ==
    [index |-> df.header,
     columns |-> [j \in 1..Len(df.rows) |-> j - 1],
     rows |-> [i \in 1..Len(df.header) |-> [j \in 1..Len(df.rows) |-> df.rows[j][i]]]]

\* df.columns = df.iloc[0]; df = df[1:]
PromoteFirstRow(t) ==
    [index |-> Tail(t.index), columns |-> t.rows[1], rows |-> Tail(t.rows)]

\* df.rename(columns={...})
RenameColumn(c) ==
    IF c = <<"Cost", " ", "Growth">> THEN <<"Cost", " ", "Digital">>
    ELSE IF c = <<"Cost", " ", "Marketing", " ">> THEN <<"Cost", " ", "offline", " ">>
    ELSE c

\* ['report_day'] + df.columns.tolist()[1:]
WithReportDay(cols) == <<report_day>> \o Tail(cols)

(***************************************************************************)
(* pd.to_datetime(..., format='%B %d') and .dt.strftime(f'{year}-%m-%d')   *)
(***************************************************************************)
FullMonths == {"January", "February", "March", "April", "May", "June", "July",
               "August", "September", "October", "November", "December"}

\* The day numerals that occur in the modelled cells: value and %d rendering.
DayNumeral ==
    ("1" :> <<1, "01">>) @@ ("2" :> <<2, "02">>) @@ ("3" :> <<3, "03">>) @@
    ("4" :> <<4, "04">>) @@ ("31" :> <<31, "31">>)

\* Days of each month of 1900, the year strptime assumes when the format has none.
DaysIn1900 == <<31, 28, 31, 30, 31, 30, 31, 31, 30, 31, 30, 31>>

MonthPad == <<"01", "02", "03", "04", "05", "06", "07", "08", "09", "10", "11", "12">>

ParsesAsMonthDay(cell) ==
    /\ Len(cell) = 3
    /\ cell[1] \in FullMonths
    /\ cell[2] = " "
    /\ cell[3] \in DOMAIN DayNumeral
    /\ DayNumeral[cell[3]][1] <= DaysIn1900[month_map[cell[1]]]

\* str(year) of the f-string
IntStr(y) ==
    LET mag == IF y < 0 THEN 0 - y ELSE y
        num == CHOOSE s \in DOMAIN Numeral : Numeral[s] = mag
    IN  IF y < 0 THEN <<"-", num>> ELSE <<num>>

FormatDay(cell, year) ==
    IntStr(year) \o <<"-", MonthPad[month_map[cell[1]]], "-", DayNumeral[cell[3]][2]>>

(***************************************************************************)
(* df[name] = np.nan: every column labelled name is overwritten; when      *)
(* there is none, a new last column is added.                              *)
(***************************************************************************)
\* A faulty variant: the column is added only when absent, an existing one is left as it is.
AddIfAbsent(t, name) ==
    IF \E c \in 1..Len(t.columns) : t.columns[c] = name
    THEN t
    ELSE [t EXCEPT !.columns = Append(@, name),
                   !.rows = [r \in 1..Len(t.rows) |-> Append(t.rows[r], NaN)]]

AssignNaN(t, name) ==
    IF \E c \in 1..Len(t.columns) : t.columns[c] = name
    THEN [t EXCEPT !.rows = [r \in 1..Len(t.rows) |->
                                [c \in 1..Len(t.columns) |->
                                    IF t.columns[c] = name THEN NaN ELSE t.rows[r][c]]]]
    ELSE [t EXCEPT !.columns = Append(@, name),
                   !.rows = [r \in 1..Len(t.rows) |-> Append(t.rows[r], NaN)]]

\* A faulty variant: the placeholder columns are assigned in the reverse order.
RECURSIVE AddPlaceholdersReversed(_, _)
AddPlaceholdersReversed(t, k) ==
    IF k > NumPlaceholders THEN t
    ELSE AddPlaceholdersReversed(AssignNaN(t, Placeholders[NumPlaceholders + 1 - k]), k + 1)

RECURSIVE AddPlaceholders(_, _)
AddPlaceholders(t, k) ==
    IF k > NumPlaceholders THEN t
    ELSE AddPlaceholders(AssignNaN(t, Placeholders[k]), k + 1)

transform_csv(file) ==
    IF ~file.readable THEN Failed("ReadError")                 \* pd.read_csv raises
    ELSE
    LET d == extract_month_year_from_filename(basename(file.path)) IN
    IF ~d.ok THEN Failed(d.err)
    ELSE
    LET t == PromoteFirstRow(transpose(sort_index(file)))
        cleaned == [c \in 1..Len(t.columns) |-> CleanName(RenameColumn(t.columns[c]))]
    IN
    IF Len(cleaned) = 0 THEN Failed("ValueError")              \* length mismatch setting columns
    ELSE
    LET cols == WithReportDay(cleaned) IN
    IF \E c \in 2..Len(cols) : cols[c] = report_day
    THEN Failed("ValueError")                                  \* df['report_day'] is a frame
    ELSE IF \E r \in 1..Len(t.rows) : ~ParsesAsMonthDay(t.rows[r][1])
    THEN Failed("ValueError")                                  \* to_datetime
    ELSE
    LET dated == [r \in 1..Len(t.rows) |->
                    [c \in 1..Len(cols) |->
                        IF c = 1 THEN FormatDay(t.rows[r][1], d.year) ELSE t.rows[r][c]]]
    IN  AddPlaceholders(Frame(t.index, cols, dated), 1)

(***************************************************************************)
(* get_csv_files, transform_all_files, save_transformed_data               *)
(***************************************************************************)
data_folder == "gh_data"

\* The last symbols that end in ".csv".
CsvSuffixed == {"Overview.csv", "report.csv", "bad.csv", "locked.csv"}

\* file.endswith('.csv')
EndsWithCsv(name) == Len(name) > 0 /\ name[Len(name)] \in CsvSuffixed

\* A faulty variant: every entry of the folder is taken, whatever its extension.
ListEverything(dir) ==
    IF dir.exists
    THEN [i \in 1..Len(dir.entries) |-> PathJoin(data_folder, dir.entries[i].name)]
    ELSE <<>>

get_csv_files(dir) ==
    IF dir.exists
    THEN LET IsCsv(e) == EndsWithCsv(e.name)
             found == SelectSeq(dir.entries, IsCsv)
         IN  [i \in 1..Len(found) |-> PathJoin(data_folder, found[i].name)]
    ELSE <<>>

\* What pd.read_csv(csv_path) finds at the path.
Open(dir, path) ==
    LET e == dir.entries[CHOOSE i \in 1..Len(dir.entries) : dir.entries[i].name = basename(path)]
    IN  [path |-> path, readable |-> e.readable, header |-> e.header, rows |-> e.rows]

RECURSIVE UnionColumns(_, _)
UnionColumns(dfs, acc) ==
    IF Len(dfs) = 0 THEN acc
    ELSE LET IsNew(c) == \A k \in 1..Len(acc) : acc[k] # c
         IN  UnionColumns(Tail(dfs), acc \o SelectSeq(Head(dfs).columns, IsNew))

\* A row of df laid out on the columns cols, NaN where df has no such column.
Reindex(df, r, cols) ==
    [c \in 1..Len(cols) |->
        IF \E k \in 1..Len(df.columns) : df.columns[k] = cols[c]
        THEN df.rows[r][CHOOSE k \in 1..Len(df.columns) : df.columns[k] = cols[c]]
        ELSE NaN]

RECURSIVE StackRows(_, _)
StackRows(dfs, cols) ==
    IF Len(dfs) = 0 THEN <<>>
    ELSE [r \in 1..Len(Head(dfs).rows) |-> Reindex(Head(dfs), r, cols)]
         \o StackRows(Tail(dfs), cols)

\* pd.concat(transformed_dfs, ignore_index=True)
concat(dfs) ==
    LET cols == UnionColumns(dfs, <<>>)
        stacked == StackRows(dfs, cols)
    IN  Frame([k \in 1..Len(stacked) |-> k - 1], cols, stacked)

\* df.to_csv(output_path, index=False): a header line and the rows, NaN as an empty field.
to_csv(df) ==
    [present |-> TRUE,
     header |-> df.columns,
     rows |-> [r \in 1..Len(df.rows) |->
                [c \in 1..Len(df.columns) |->
                    IF df.rows[r][c] = NaN THEN <<>> ELSE df.rows[r][c]]]]

AbsentFile == [present |-> FALSE, header |-> <<>>, rows |-> <<>>]
OldFile == [present |-> TRUE, header |-> << <<"old">> >>, rows |-> <<>>]

Raised(e) == [kind |-> e, table |-> NoFrame]
Returned(df) == [kind |-> "table", table |-> df]
NoOutcome == Raised("none")

Line(kind, path, err) == [kind |-> kind, path |-> path, err |-> err]

(***************************************************************************)
(* Input files.  A wide table has a first column of row labels and d >= 1  *)
(* day columns; the first row holds either day strings or numbers, every       *)
(* other row numbers; the day columns are labelled by day strings or by    *)
(* the "Unnamed: j" labels read_csv gives to an empty header field.        *)
(***************************************************************************)
Digits == <<"1", "2", "3", "4", "5">>

Labels == { <<"Cost", " ", "Growth">>, <<"Installs">>, <<"Date">>,
            <<"Fsfirst", " ", "Disb">>, <<"Report", " ", "Day">> }

DayText(j) == <<"June", " ", Digits[j]>>

Fill(kind, i, j) == IF kind = "days" THEN DayText(j) ELSE <<Digits[i], Digits[j]>>

HeaderLabel(kind, j) == IF kind = "days" THEN DayText(j) ELSE <<"Unnamed:", " ", Digits[j]>>

Table(labels, firstFill, headerKind, d) ==
    [header |-> << <<"Metric">> >> \o [j \in 1..d |-> HeaderLabel(headerKind, j)],
     rows |-> [i \in 1..Len(labels) |->
                <<labels[i]>> \o [j \in 1..d |-> Fill(IF i = 1 THEN firstFill ELSE "nums", i, j)]]]

\* "Ghana - Marketing_Growth 360 Report - 2025 - 2025 June Overview.csv": the year first
YearFirstName == MakeName(3, << <<"2025">>, <<"June">>, <<"Overview.csv">> >>)
\* "Ghana - Marketing_Growth 360 Report - 2025 - June 2025 Overview.csv": the convention
ConventionName == MakeName(3, << <<"June">>, <<"2025">>, <<"Overview.csv">> >>)
ShortName == <<"report.csv">>

LabelSeqs == UNION { [1..n -> Labels] : n \in 0..MaxRows }

Entry(name, readable, tbl) ==
    [name |-> name, readable |-> readable, header |-> tbl.header, rows |-> tbl.rows]

File(name, readable, tbl) ==
    [path |-> PathJoin(data_folder, name), readable |-> readable,
     header |-> tbl.header, rows |-> tbl.rows]

NoFile == File(<<>>, FALSE, [header |-> <<>>, rows |-> <<>>])

ReshapeFiles ==
    { File(n, TRUE, Table(ls, ff, hk, d)) :
        n \in {YearFirstName, ConventionName, ShortName}, ls \in LabelSeqs,
        ff \in {"days", "nums"}, hk \in {"days", "unnamed"}, d \in 1..MaxDays }
    \cup { File(ShortName, FALSE, [header |-> <<>>, rows |-> <<>>]) }

\* The entries a data folder is filled from.
DatedTable == Table(<< <<"Date">>, <<"Cost", " ", "Growth">>, <<"Installs">> >>, "days", "unnamed", 2)

EntryPool == {
    Entry(YearFirstName, TRUE, DatedTable),
    Entry(ShortName, TRUE, Table(<< <<"Date">>, <<"Installs">> >>, "days", "unnamed", 1)),
    Entry(ConventionName, TRUE, DatedTable),
    Entry(<<"bad.csv">>, TRUE,
          Table(<< <<"Cost", " ", "Growth">>, <<"Installs">> >>, "nums", "days", 2)),
    Entry(<<"locked.csv">>, FALSE, [header |-> <<>>, rows |-> <<>>]),
    Entry(<<"notes.txt">>, TRUE, [header |-> << <<"text">> >>, rows |-> <<>>]) }

\* os.listdir: distinct entries, in any order.
Listings ==
    { l \in UNION { [1..n -> EntryPool] : n \in 0..MaxFiles } :
        \A i, j \in 1..Len(l) : i # j => l[i] # l[j] }

(***************************************************************************)
(* The state of each part while another part is being run.                 *)
(***************************************************************************)
DateIdle == filename = <<>> /\ date = NoDate
CleanIdle == rawname = <<>> /\ colname = <<>> /\ once = <<>> /\ applied = 0
ReshapeIdle == csv = NoFile /\ long = NoFrame
DriverIdle ==
    /\ folder = [exists |-> FALSE, entries |-> <<>>]
    /\ csv_files = <<>> /\ idx = 0 /\ transformed_dfs = <<>> /\ log = <<>>
    /\ pc = "idle" /\ outcome = NoOutcome /\ returned = NoFrame
    /\ outfile = AbsentFile /\ writes = 0

dateVars == <<filename, date>>
cleanVars == <<rawname, colname, once, applied>>
reshapeVars == <<csv, long>>
driverVars == <<folder, csv_files, idx, transformed_dfs, log, pc, outcome, returned,
                outfile, writes>>

(***************************************************************************)
(* SpecDate: extract_month_year_from_filename called on a filename.        *)
(***************************************************************************)
InitDate ==
    /\ filename \in FileNames /\ date = NoDate
    /\ CleanIdle /\ ReshapeIdle /\ DriverIdle

InferDate ==
    /\ date = NoDate
    /\ date' = extract_month_year_from_filename(filename)
    /\ UNCHANGED <<filename, cleanVars, reshapeVars, driverVars>>

NextDate == InferDate

SpecDate == InitDate /\ [][NextDate]_vars

(***************************************************************************)
(* SpecClean: the column-name cleaning applied to a name, repeatedly.      *)
(***************************************************************************)
InitClean ==
    /\ rawname \in RawNames /\ colname = rawname /\ once = <<>> /\ applied = 0
    /\ DateIdle /\ ReshapeIdle /\ DriverIdle

CleanColumns ==
    /\ applied < MaxApply
    /\ colname' = CleanName(colname)
    /\ once' = IF applied = 0 THEN colname' ELSE once
    /\ applied' = applied + 1
    /\ UNCHANGED <<rawname, dateVars, reshapeVars, driverVars>>

NextClean == CleanColumns

SpecClean == InitClean /\ [][NextClean]_vars

(***************************************************************************)
(* SpecReshape: transform_csv called on one file.                          *)
(***************************************************************************)
InitReshape ==
    /\ csv \in ReshapeFiles /\ long = NoFrame
    /\ DateIdle /\ CleanIdle /\ DriverIdle

TransformCsv ==
    /\ long = NoFrame
    /\ long' = transform_csv(csv)
    /\ UNCHANGED <<csv, dateVars, cleanVars, driverVars>>

NextReshape == TransformCsv

SpecReshape == InitReshape /\ [][NextReshape]_vars

(***************************************************************************)
(* Spec: save_transformed_data run on a data folder.                       *)
(***************************************************************************)
Init ==
    /\ \/ folder \in { [exists |-> TRUE, entries |-> l] : l \in Listings }
       \/ folder = [exists |-> FALSE, entries |-> <<>>]
    /\ csv_files = <<>> /\ idx = 0 /\ transformed_dfs = <<>> /\ log = <<>>
    /\ pc = "start" /\ outcome = NoOutcome /\ returned = NoFrame
    /\ outfile \in {AbsentFile, OldFile} /\ writes = 0
    /\ DateIdle /\ CleanIdle /\ ReshapeIdle

\* csv_files = self.get_csv_files(); if not csv_files: raise FileNotFoundError
GetCsvFiles ==
    /\ pc = "start"
    /\ csv_files' = get_csv_files(folder)
    /\ IF csv_files' = <<>>
       THEN /\ outcome' = Raised("FileNotFoundError")
            /\ pc' = "raised"
            /\ idx' = idx
       ELSE /\ outcome' = outcome
            /\ pc' = "loop"
            /\ idx' = 1
    /\ UNCHANGED <<folder, transformed_dfs, log, returned, outfile, writes,
                   dateVars, cleanVars, reshapeVars>>

\* one pass of the for loop whose transform_csv returns
TransformSucceeds ==
    /\ pc = "loop" /\ idx <= Len(csv_files)
    /\ LET df == transform_csv(Open(folder, csv_files[idx])) IN
        /\ df.ok
        /\ transformed_dfs' = Append(transformed_dfs, df)
        /\ log' = Append(log, Line("Processing", csv_files[idx], "none"))
    /\ idx' = idx + 1
    /\ UNCHANGED <<folder, csv_files, pc, outcome, returned, outfile, writes,
                   dateVars, cleanVars, reshapeVars>>

\* A faulty variant: the handler leaves the loop (break) instead of going on (continue).
TransformFailsAndStops ==
    /\ pc = "loop" /\ idx <= Len(csv_files)
    /\ LET df == transform_csv(Open(folder, csv_files[idx])) IN
        /\ ~df.ok
        /\ log' = log \o << Line("Processing", csv_files[idx], "none"),
                            Line("Error", csv_files[idx], df.err) >>
    /\ idx' = Len(csv_files) + 1
    /\ UNCHANGED <<folder, csv_files, transformed_dfs, pc, outcome, returned, outfile,
                   writes, dateVars, cleanVars, reshapeVars>>

\* one pass of the for loop whose transform_csv raises: except Exception, print, continue
TransformFails ==
    /\ pc = "loop" /\ idx <= Len(csv_files)
    /\ LET df == transform_csv(Open(folder, csv_files[idx])) IN
        /\ ~df.ok
        /\ log' = log \o << Line("Processing", csv_files[idx], "none"),
                            Line("Error", csv_files[idx], df.err) >>
    /\ idx' = idx + 1
    /\ UNCHANGED <<folder, csv_files, transformed_dfs, pc, outcome, returned, outfile,
                   writes, dateVars, cleanVars, reshapeVars>>

\* A faulty variant: the (empty) result is written out before the error is raised.
RaiseAfterWriting ==
    /\ pc = "loop" /\ idx > Len(csv_files)
    /\ transformed_dfs = <<>>
    /\ outfile' = to_csv(Frame(<<>>, <<>>, <<>>))
    /\ writes' = writes + 1
    /\ outcome' = Raised("ValueError")
    /\ pc' = "raised"
    /\ UNCHANGED <<folder, csv_files, idx, transformed_dfs, log, returned,
                   dateVars, cleanVars, reshapeVars>>

\* if not transformed_dfs: raise ValueError
RaiseAllFailed ==
    /\ pc = "loop" /\ idx > Len(csv_files)
    /\ transformed_dfs = <<>>
    /\ outcome' = Raised("ValueError")
    /\ pc' = "raised"
    /\ UNCHANGED <<folder, csv_files, idx, transformed_dfs, log, returned, outfile,
                   writes, dateVars, cleanVars, reshapeVars>>

\* combined_df = pd.concat(...); return combined_df
Concat ==
    /\ pc = "loop" /\ idx > Len(csv_files)
    /\ transformed_dfs # <<>>
    /\ outcome' = Returned(concat(transformed_dfs))
    /\ pc' = "combined"
    /\ UNCHANGED <<folder, csv_files, idx, transformed_dfs, log, returned, outfile,
                   writes, dateVars, cleanVars, reshapeVars>>

\* df.to_csv(output_path, index=False); print(...)
ToCsv ==
    /\ pc = "combined"
    /\ outfile' = to_csv(outcome.table)
    /\ writes' = writes + 1
    /\ log' = Append(log, Line("Saved", <<>>, "none"))
    /\ pc' = "written"
    /\ UNCHANGED <<folder, csv_files, idx, transformed_dfs, outcome, returned,
                   dateVars, cleanVars, reshapeVars>>

\* return df
Return ==
    /\ pc = "written"
    /\ returned' = outcome.table
    /\ pc' = "done"
    /\ UNCHANGED <<folder, csv_files, idx, transformed_dfs, log, outcome, outfile,
                   writes, dateVars, cleanVars, reshapeVars>>

Next ==
    \/ GetCsvFiles
    \/ TransformSucceeds
    \/ TransformFails
    \/ RaiseAllFailed
    \/ Concat
    \/ ToCsv
    \/ Return

Spec == Init /\ [][Next]_vars

(***************************************************************************)
(* Properties of extract_month_year_from_filename (SpecDate).              *)
(***************************************************************************)
Separator == <<" ", "-", " ">>

\* The filename follows "<Country> - Marketing_Growth 360 Report - <Year> - <Month> <Year> Overview.csv"
\* with month word m and year numeral y in its 4th segment.
FollowsConvention(fname, m, y) ==
    fname = MakeName(3, << <<m>>, <<y>>, <<"Overview.csv">> >>)

MatchesConvention(fname) ==
    \E m \in DOMAIN month_map, y \in DOMAIN Numeral : FollowsConvention(fname, m, y)

\* C1: for every filename that matches the naming convention, the call returns exactly
\* the (month, year) written in the 4th " - "-delimited segment.
C1_ConventionDate ==
    \A m \in DOMAIN month_map, y \in DOMAIN Numeral :
        (date # NoDate /\ FollowsConvention(filename, m, y))
            => date = DateOk(month_map[m], Numeral[y])

\* C8: for every filename that splits on " - " into fewer than 4 parts, the call
\* returns the default (1, 2025) and raises nothing.
C8_ShortDefault ==
    (date # NoDate /\ Len(Split(filename, Separator)) < 4) => date = DateOk(1, 2025)

C8_Witness ==
    /\ date = DateOk(1, 2025)
    /\ Len(Split(filename, Separator)) = 3
    /\ Len(filename) > 9

\* C9: for every filename that deviates from the naming convention, the call returns
\* a (month, year) pair and raises no error.
C9_DeviationReturns ==
    (date # NoDate /\ ~MatchesConvention(filename)) => date.ok

(***************************************************************************)
(* Properties of the column-name cleaning (SpecClean).                     *)
(***************************************************************************)
\* C7: cleaning a column name twice gives the same string as cleaning it once, and a
\* cleaned name holds no upper-case letter, space, '+', '-', '.' or '/'.
C7_CleanIdempotent ==
    applied >= 1 =>
        /\ colname = once
        /\ \A i \in 1..Len(colname) :
              /\ ~HasUpper(colname[i])
              /\ colname[i] \notin {" ", "+", "-", ".", "/"}

C7_Witness ==
    /\ applied = 2
    /\ colname = once
    /\ Len(once) >= 1
    /\ Len(once) < Len(rawname)
    /\ \E i \in 1..Len(rawname) : rawname[i] = " "
    /\ \E i \in 1..Len(rawname) : rawname[i] = "A"

(***************************************************************************)
(* Properties of transform_csv (SpecReshape).                              *)
(***************************************************************************)
cost_digital == <<"cost", "_", "digital">>

ColumnValues(df, c) == [r \in 1..Len(df.rows) |-> df.rows[r][c]]

\* The cleaned names of the columns the rows 2..n of the file become.
TailNames(file) ==
    [i \in 1..(Len(file.rows) - 1) |-> CleanName(RenameColumn(file.rows[i + 1][1]))]

IsPlaceholder(name) == \E k \in 1..NumPlaceholders : Placeholders[k] = name

\* C4: a wide table with the metric rows "Cost Growth" and "Installs" and the day
\* columns "June 1" and "June 2", read with the inferred date (6, 2025), is reshaped
\* into a table with report_day = 2025-06-01, 2025-06-02 and a cost_digital column
\* holding the per-day values of "Cost Growth".
C4_RoundTrip ==
    ( /\ long # NoFrame
      /\ csv.readable
      /\ extract_month_year_from_filename(basename(csv.path)) = DateOk(6, 2025)
      /\ csv.header = << <<"Metric">>, <<"June", " ", "1">>, <<"June", " ", "2">> >>
      /\ Len(csv.rows) = 2
      /\ csv.rows[1][1] = <<"Cost", " ", "Growth">>
      /\ csv.rows[2][1] = <<"Installs">> )
    =>
    ( /\ long.ok
      /\ Len(long.rows) = 2
      /\ \E c \in 1..Len(long.columns) :
            /\ long.columns[c] = report_day
            /\ ColumnValues(long, c) = << <<"2025", "-", "06", "-", "01">>,
                                          <<"2025", "-", "06", "-", "02">> >>
      /\ \E c \in 1..Len(long.columns) :
            /\ long.columns[c] = cost_digital
            /\ ColumnValues(long, c) = <<csv.rows[1][2], csv.rows[1][3]>> )

\* C5: every table a successful transform_csv returns has each of the six placeholder
\* columns, and each of them holds the null marker in every row, whatever the input
\* (also when a cleaned metric name coincides with a placeholder name).
C5_PlaceholdersNull ==
    long.ok =>
        \A k \in 1..NumPlaceholders :
            /\ \E c \in 1..Len(long.columns) : long.columns[c] = Placeholders[k]
            /\ \A c \in 1..Len(long.columns) :
                  long.columns[c] = Placeholders[k] =>
                      \A r \in 1..Len(long.rows) : long.rows[r][c] = NaN

C5_Witness ==
    /\ long.ok
    /\ Len(long.rows) >= 2
    /\ \E i \in 2..Len(csv.rows) : IsPlaceholder(CleanName(RenameColumn(csv.rows[i][1])))

ResultOf(i) == transform_csv(Open(folder, csv_files[i]))

\* Rows contributed by the successfully reshaped files before the i-th.
RECURSIVE RowsBefore(_)
RowsBefore(i) ==
    IF i <= 1 THEN 0
    ELSE RowsBefore(i - 1) + (IF ResultOf(i - 1).ok THEN Len(ResultOf(i - 1).rows) ELSE 0)

IsProcessing(l) == l.kind = "Processing"

Discovered ==
    IF folder.exists
    THEN LET IsCsv(e) == EndsWithCsv(e.name) IN SelectSeq(folder.entries, IsCsv)
    ELSE <<>>

Reshapes(e) ==
    transform_csv(File(e.name, e.readable, [header |-> e.header, rows |-> e.rows])).ok

C10_WriteOnlyOnSuccess ==
    /\ [](pc = "raised" => writes = 0)
    /\ [](writes > 0 => outcome.kind = "table")
    /\ [](pc = "done" =>
            /\ writes = 1
            /\ returned = outcome.table
            /\ outfile.present
            /\ outfile.header = returned.columns
            /\ Len(outfile.rows) = Len(returned.rows)
            /\ \A r \in 1..Len(returned.rows) : \A c \in 1..Len(returned.columns) :
                  outfile.rows[r][c] = (IF returned.rows[r][c] = NaN THEN <<>>
                                        ELSE returned.rows[r][c]))
    /\ [][writes' = writes => outfile' = outfile]_vars
    /\ [][writes' # writes => (writes' = writes + 1 /\ pc = "combined")]_vars

C10_Witness ==
    /\ pc = "raised"
    /\ outcome.kind = "ValueError"
    /\ Len(csv_files) >= 2
    /\ outfile = OldFile
    /\ writes = 0

====
